---- MODULE Spec2Model ----
(***************************************************************************)
(* simdict: a desktop dictionary lookup.  src/main.rs wires a window       *)
(* (search / quit callbacks, a startup search on a worker thread) to       *)
(* fetch_translation, which tries a primary endpoint (Strategy A regex     *)
(* extraction) and then a fallback endpoint (Strategy B substring          *)
(* extraction).                                                            *)
(*                                                                         *)
(* Text is modelled as a sequence of tokens.  A token is either one        *)
(* ordinary character or one indivisible piece of markup; the markup       *)
(* literals of the patterns are sequences of such tokens, cut so that the  *)
(* overlaps between literals (the quote ending the meta start marker and   *)
(* opening its end marker, the "</span>" shared by three literals) are     *)
(* kept.                                                                   *)
(***************************************************************************)
EXTENDS Integers, Sequences, FiniteSets, TLC

VARIABLES
    initial_search, \* main.rs:11, argv[1] trimmed, or empty
    mainPc,         \* position of main(): "spawn", "run", "returned"
    loop,           \* slint event loop: "idle", "running", "quit"
    queue,          \* closures / quit requests handed to the event loop
    uiT,            \* the UI thread inside the on_search callback
    wk,             \* the startup worker thread
    input_text,     \* MainWindow.input_text
    translation,    \* MainWindow.translation
    nSearch,        \* number of search actions the user has triggered
    hist,           \* observation counters of fetches and set_translation calls
    doc,            \* the segments the Strategy A input is made of
    html,           \* input of the extractor under test
    parsePc,        \* "input" before the extractor ran, "parsed" after
    parseOut        \* Option<String> returned by the extractor

vars == <<initial_search, mainPc, loop, queue, uiT, wk, input_text,
          translation, nSearch, hist, doc, html, parsePc, parseOut>>

appVars == <<initial_search, mainPc, loop, queue, uiT, wk, input_text,
             translation, nSearch, hist>>

parseVars == <<doc, html, parsePc, parseOut>>

(***************************************************************************)
(* Bounds                                                                  *)
(***************************************************************************)
MaxWordLen == 2     \* longest query typed or passed on the command line
MaxSearches == 2    \* user-triggered search actions per run
MaxHtmlLen == 6     \* longest Strategy B input, in tokens
MaxSegs == 3        \* most segments of a Strategy A input

(***************************************************************************)
(* Option<String> and Result<String>                                       *)
(***************************************************************************)
None == [some |-> FALSE, v |-> <<>>]
Some(s) == [some |-> TRUE, v |-> s]
Ok(s) == [ok |-> TRUE, v |-> s]
Err(m) == [ok |-> FALSE, v |-> <<m>>]

(***************************************************************************)
(* Generic string helpers                                                  *)
(***************************************************************************)
RECURSIVE SeqsUpTo(_, _)
SeqsUpTo(S, n) ==
    IF n = 0 THEN {<<>>}
    ELSE LET shorter == SeqsUpTo(S, n - 1)
         IN  shorter \cup {Append(s, c) : s \in {t \in shorter : Len(t) = n - 1}, c \in S}

Min(S) == CHOOSE m \in S : \A k \in S : m <= k

WhiteSpace == {" ", "\n"}

\* str::trim: drop leading and trailing whitespace
RECURSIVE TrimStart(_)
TrimStart(s) ==
    IF s # <<>> /\ Head(s) \in WhiteSpace THEN TrimStart(Tail(s)) ELSE s

RECURSIVE TrimEnd(_)
TrimEnd(s) ==
    IF s # <<>> /\ s[Len(s)] \in WhiteSpace
    THEN TrimEnd(SubSeq(s, 1, Len(s) - 1)) ELSE s

Trim(s) == TrimEnd(TrimStart(s))

\* pat occurs in s at 0-based offset i
At(s, pat, i) ==
    /\ i + Len(pat) <= Len(s)
    /\ SubSeq(s, i + 1, i + Len(pat)) = pat

\* the first of a set of offsets, -1 for Option::None
FirstOf(hits) == IF hits = {} THEN -1 ELSE Min(hits)

\* str::find: offset of the first occurrence
Find(s, pat) == FirstOf({i \in 0..Len(s) : At(s, pat, i)})

(***************************************************************************)
(* Strategy B: parse_bing_response_fallback                                *)
(***************************************************************************)
MetaTok == "<meta name=\"description\" content="
QuoteTok == "\""
SlashGtTok == " />"

start_pattern == <<MetaTok, QuoteTok>>
end_pattern == <<QuoteTok, SlashGtTok>>

\* main.rs:231-233
UpToEnd(after_start, end_pos) ==
    IF end_pos = -1 THEN None ELSE Some(SubSeq(after_start, 1, end_pos))

SliceFromQuote(h, start_pos) == SubSeq(h, start_pos + Len(start_pattern), Len(h))

\* main.rs:229, &html[start_pos + start_pattern.len()..]
AfterStart(h, start_pos) == SubSeq(h, start_pos + Len(start_pattern) + 1, Len(h))

\* main.rs:231
FindEnd(after_start) == UpToEnd(after_start, Find(after_start, end_pattern))

\* main.rs:228-236
FromStart(h, start_pos) ==
    IF start_pos = -1 THEN None ELSE FindEnd(AfterStart(h, start_pos))

parse_bing_response_fallback(h) == FromStart(h, Find(h, start_pattern))

(***************************************************************************)
(* Strategy A: the two regular expressions.  Both have the shape           *)
(*     lit1 .*? lit2 .*? lit3                                              *)
(* and `cap` says which of the two lazy gaps is a capture group.  The      *)
(* regex crate returns the leftmost match and, for that start, prefers the *)
(* shortest expansion of each lazy gap in turn; `.` does not match "\n".   *)
(***************************************************************************)
AttrTok == "<span class=\"ht_attr\" lang=\""
QuoteGtLbTok == "\">["
RbTok == "]"
CloseSpanTok == "</span>"
PosTok == "<span class=\"ht_pos\">"
TrsTok == "<span class=\"ht_trs\">"

phonetic_pattern ==
    [lit1 |-> <<AttrTok>>, lit2 |-> <<QuoteGtLbTok>>,
     lit3 |-> <<RbTok, " ", CloseSpanTok>>, cap |-> <<FALSE, TRUE>>]

explain_pattern ==
    [lit1 |-> <<PosTok>>, lit2 |-> <<CloseSpanTok, TrsTok>>,
     lit3 |-> <<CloseSpanTok>>, cap |-> <<TRUE, TRUE>>]

\* `.*?` can cover s[a+1..b] (0-based offsets a <= b): no newline inside
DotStar(s, a, b) == a <= b /\ \A n \in (a + 1)..b : s[n] # "\n"

\* offsets j of lit2 that complete a match starting at offset i
Lit2Ends(s, re, i) ==
    {j \in (i + Len(re.lit1))..Len(s) :
        /\ At(s, re.lit2, j)
        /\ DotStar(s, i + Len(re.lit1), j)
        /\ \E k \in (j + Len(re.lit2))..Len(s) :
              At(s, re.lit3, k) /\ DotStar(s, j + Len(re.lit2), k)}

Lit3Ends(s, re, j) ==
    {k \in (j + Len(re.lit2))..Len(s) :
        At(s, re.lit3, k) /\ DotStar(s, j + Len(re.lit2), k)}

MatchStarts(s, re, from) ==
    {i \in from..Len(s) : At(s, re.lit1, i) /\ Lit2Ends(s, re, i) # {}}

NoMatch == [found |-> FALSE, end |-> 0, groups |-> <<>>]

\* the match with lit1 at offset i, lit2 at j and lit3 at k
MatchOf(s, re, i, j, k) ==
    [found |-> TRUE, end |-> k + Len(re.lit3),
     groups |-> (IF re.cap[1] THEN <<SubSeq(s, i + Len(re.lit1) + 1, j)>> ELSE <<>>)
                \o (IF re.cap[2] THEN <<SubSeq(s, j + Len(re.lit2) + 1, k)>> ELSE <<>>)]

MatchFromLit2(s, re, i, j) == MatchOf(s, re, i, j, Min(Lit3Ends(s, re, j)))

MatchFromStart(s, re, i) == MatchFromLit2(s, re, i, Min(Lit2Ends(s, re, i)))

LeftmostMatch(s, re, starts) ==
    IF starts = {} THEN NoMatch ELSE MatchFromStart(s, re, Min(starts))

\* Regex::captures on s[from..]: the groups that took part, group 0 skipped
Captures(s, re, from) == LeftmostMatch(s, re, MatchStarts(s, re, from))

CapsOption(m) == IF m.found THEN Some(m.groups) ELSE None

\* regex_search: Option<Vec<String>>
regex_search(re, text) == CapsOption(Captures(text, re, 0))

\* Regex::captures_iter: successive non-overlapping matches
RECURSIVE CapturesIter(_, _, _)
RECURSIVE IterFrom(_, _, _)
IterFrom(s, re, m) ==
    IF ~m.found THEN <<>>
    ELSE (IF m.groups # <<>> THEN <<m.groups>> ELSE <<>>)
         \o CapturesIter(s, re, m.end)

CapturesIter(s, re, from) == IterFrom(s, re, Captures(s, re, from))

ResultsOption(results) == IF results = <<>> THEN None ELSE Some(results)

\* regex_search_all: Option<Vec<Vec<String>>>
regex_search_all(re, text) == ResultsOption(CapturesIter(text, re, 0))

\* format!("· [{}]\n", caps[0].trim())
PhoneticText(cap) == Trim(cap)

PhoneticLine(cap) == <<"·", " ", "[">> \o PhoneticText(cap) \o <<"]", "\n">>

\* format!("· {} {}", pos, trs)
ExplainLine(pos, trs) == <<"·", " ">> \o pos \o <<" ">> \o trs

RECURSIVE PushExplains(_, _)
PushExplains(result, explains) ==
    IF explains = <<>> THEN result
    ELSE PushExplains(result \o Head(explains) \o <<"\n">>, Tail(explains))

KeepNewline(result) == result

\* result.ends_with('\n') => result.pop()
PopNewline(result) ==
    IF result # <<>> /\ result[Len(result)] = "\n"
    THEN SubSeq(result, 1, Len(result) - 1) ELSE result

RECURSIVE Explains(_)
Explains(matches) ==
    IF matches = <<>> THEN <<>>
    ELSE (IF Len(Head(matches)) >= 2
          THEN <<ExplainLine(Head(matches)[1], Head(matches)[2])>> ELSE <<>>)
         \o Explains(Tail(matches))

\* main.rs:152-156
PhoneticResult(ph) ==
    IF ph.some /\ ph.v # <<>> THEN PhoneticLine(ph.v[1]) ELSE <<>>

\* main.rs:160-169
ExplainsOf(all) == IF all.some THEN Explains(all.v) ELSE <<>>

\* main.rs:171-184
Assemble(result, explains) ==
    IF explains = <<>> /\ result = <<>> THEN None
    ELSE Some(PopNewline(PushExplains(result, explains)))

parse_bing_response(h) ==
    Assemble(PhoneticResult(regex_search(phonetic_pattern, h)),
             ExplainsOf(regex_search_all(explain_pattern, h)))

(***************************************************************************)
(* Extractor inputs                                                        *)
(***************************************************************************)
FallbackTokens == {MetaTok, QuoteTok, SlashGtTok, "x"}

PhonSeg(lang, cap) == [kind |-> "phon", a |-> lang, b |-> cap]
PairSeg(pos, trs) == [kind |-> "pair", a |-> pos, b |-> trs]
TextSeg(t) == [kind |-> "text", a |-> t, b |-> <<>>]
RawSeg(t) == [kind |-> "raw", a |-> t, b |-> <<>>]

Segments ==
    {PhonSeg(<<"x">>, <<"x">>), PhonSeg(<<"x">>, <<" ", "y", " ">>), PhonSeg(<<>>, <<>>),
     PairSeg(<<"x">>, <<"y">>), PairSeg(<<"y">>, <<>>),
     TextSeg(<<"x">>), TextSeg(<<"\n">>),
     RawSeg(<<PosTok>>), RawSeg(<<CloseSpanTok>>), RawSeg(<<AttrTok, "\n">>)}

RenderSeg(g) ==
    CASE g.kind = "phon" -> <<AttrTok>> \o g.a \o <<QuoteGtLbTok>> \o g.b
                            \o <<RbTok, " ", CloseSpanTok>>
      [] g.kind = "pair" -> <<PosTok>> \o g.a \o <<CloseSpanTok, TrsTok>> \o g.b
                            \o <<CloseSpanTok>>
      [] OTHER -> g.a

RECURSIVE Render(_)
Render(d) == IF d = <<>> THEN <<>> ELSE RenderSeg(Head(d)) \o Render(Tail(d))

(***************************************************************************)
(* HTTP responses.  "transport" stands for every reqwest::Error the `?`    *)
(* operators of fetch_from_bing / fetch_from_bing_fallback convert         *)
(* (building the client, sending, reading the body).                       *)
(***************************************************************************)
NoResp == [kind |-> "none", status |-> 0, body |-> <<>>]
TransportError == [kind |-> "transport", status |-> 0, body |-> <<>>]
Http(status, body) == [kind |-> "http", status |-> status, body |-> body]

\* StatusCode::is_success
is_success(status) == status >= 200 /\ status <= 299

PrimaryBodies ==
    {<<"x">>, Render(<<PairSeg(<<"x">>, <<"y">>)>>)}

FallbackBodies ==
    {<<"x">>,
     start_pattern \o end_pattern,
     start_pattern \o <<"x">> \o end_pattern}

PrimaryResponses ==
    {TransportError, Http(500, <<>>)} \cup {Http(200, b) : b \in PrimaryBodies}

FallbackResponses ==
    {TransportError, Http(500, <<>>)} \cup {Http(200, b) : b \in FallbackBodies}

NoData == <<"No Data">>

\* main.rs:108-114 and 137-144: ok_or(..)?, then the is_empty test
AcceptEmpty(result, msg) ==
    IF ~result.some THEN Err(msg) ELSE Ok(result.v)

NonEmpty(result, msg) ==
    IF ~result.some THEN Err(msg)
    ELSE IF result.v = <<>> THEN Err("No valid data from API")
    ELSE Ok(result.v)

fetch_from_bing(resp) ==
    IF resp.kind = "transport" THEN Err("transport error")
    ELSE IF ~is_success(resp.status) THEN Err("API returned status")
    ELSE NonEmpty(parse_bing_response(resp.body), "parse_bing_response failed")

FallbackUsesStrategyA(resp) == fetch_from_bing(resp)

fetch_from_bing_fallback(resp) ==
    IF resp.kind = "transport" THEN Err("transport error")
    ELSE IF ~is_success(resp.status) THEN Err("API returned status")
    ELSE NonEmpty(parse_bing_response_fallback(resp.body),
                  "parse_bing_response_fallback failed")

(***************************************************************************)
(* fetch_translation, one request per step.  A thread inside it is a       *)
(* record: pc "primary" (about to call fetch_from_bing), "fallback" (about *)
(* to call fetch_from_bing_fallback), "ret" (fetch_translation returned).  *)
(***************************************************************************)
Thread(pc, word) ==
    [pc |-> pc, word |-> word, reqs |-> <<>>, resp1 |-> NoResp,
     resp2 |-> NoResp, result |-> Ok(<<>>), handoff |-> "none"]

\* main.rs:63-71: the Err arm of the first match falls through
FallbackAlways(r) == TRUE

TryFallback(r) == ~r.ok

\* main.rs:78-83: the Err arm of the second match, then Ok("No Data")
ExhaustedPropagates(e) == e

Exhausted(e) == Ok(NoData)

AfterPrimary(t, r) ==
    IF TryFallback(r) THEN [t EXCEPT !.pc = "fallback"]
    ELSE [t EXCEPT !.pc = "ret", !.result = Ok(r.v)]

FetchPrimary(t, resp) ==
    AfterPrimary([t EXCEPT !.reqs = Append(@, "primary"), !.resp1 = resp],
                 fetch_from_bing(resp))

AfterFallback(t, r) ==
    IF r.ok THEN [t EXCEPT !.pc = "ret", !.result = Ok(r.v)]
    ELSE [t EXCEPT !.pc = "ret", !.result = Exhausted(r)]

FetchFallback(t, resp) ==
    AfterFallback([t EXCEPT !.reqs = Append(@, "fallback"), !.resp2 = resp],
                  fetch_from_bing_fallback(resp))

\* the match around fetch_translation at main.rs:27-30 and main.rs:45-51
DisplayText(result) ==
    IF result.ok THEN result.v ELSE <<"Error: ">> \o result.v

(***************************************************************************)
(* main                                                                    *)
(***************************************************************************)
Prog == <<"simdict">>
Words == SeqsUpTo({" ", "a"}, MaxWordLen)

\* std::env::args(): the program name, then at most one argument
Argvs == {<<Prog>>} \cup {<<Prog, w>> : w \in Words}

Idle == Thread("idle", <<>>)
NotSpawned == Thread("none", <<>>)

\* main.rs:11-15
InitialSearch(av) == IF Len(av) > 1 THEN Trim(av[2]) ELSE <<>>

ParseOff == doc = <<>> /\ html = <<>> /\ parsePc = "off" /\ parseOut = None

Init ==
    /\ \E av \in Argvs : initial_search = InitialSearch(av)
    /\ mainPc = "spawn"
    /\ loop = "idle"
    /\ queue = <<>>
    /\ uiT = Idle
    /\ wk = NotSpawned
    /\ input_text = <<>>
    /\ translation = <<>>
    /\ nSearch = 0
    /\ hist = [uiDone |-> 0, uiSet |-> 0, wkDone |-> 0, wkSet |-> 0,
               blank |-> 0, ordered |-> TRUE]
    /\ ParseOff

\* main.rs:41-53
MainSpawn ==
    /\ mainPc = "spawn"
    /\ mainPc' = "run"
    /\ IF initial_search # <<>>
       THEN /\ input_text' = initial_search
            /\ wk' = Thread("primary", initial_search)
       ELSE UNCHANGED <<input_text, wk>>
    /\ UNCHANGED <<initial_search, loop, queue, uiT, translation, nSearch, hist>>
    /\ UNCHANGED parseVars

\* main.rs:55, entering ui.run()
MainRun ==
    /\ mainPc = "run"
    /\ mainPc' = "loop"
    /\ loop' = "running"
    /\ UNCHANGED <<initial_search, queue, uiT, wk, input_text, translation,
                   nSearch, hist>>
    /\ UNCHANGED parseVars

\* main.rs:55-57, ui.run() returns and the process ends with main
MainReturn ==
    /\ mainPc = "loop"
    /\ loop = "quit"
    /\ mainPc' = "returned"
    /\ UNCHANGED <<initial_search, loop, queue, uiT, wk, input_text,
                   translation, nSearch, hist>>
    /\ UNCHANGED parseVars

(***************************************************************************)
(* The UI thread: callbacks run one at a time inside ui.run()              *)
(***************************************************************************)
\* main.rs:21
IsEmptyUntrimmed(word) == word = <<>>

IsBlank(word) == Trim(word) = <<>>

\* main.rs:32 / upgrade_in_event_loop: main owns `ui` until it returns
WindowGone == FALSE

WindowAlive == mainPc # "returned"

QuitItem == [kind |-> "quit", text |-> <<>>]
SetItem(text) == [kind |-> "set", text |-> text]

UiReady == loop = "running" /\ uiT.pc = "idle"

\* bookkeeping of one set_translation call.  The startup search is
\* requested before every user search and user searches run one after the
\* other, so the calls are out of request order exactly when the startup
\* result is written after a user result.
NoteSet(h, who) ==
    [h EXCEPT ![who] = @ + 1,
              !.ordered = @ /\ (who = "wkSet" => h.uiSet = 0)]

\* main.rs:20-26, the search action up to the call of fetch_translation
Search(word) ==
    /\ UiReady
    /\ nSearch < MaxSearches
    /\ nSearch' = nSearch + 1
    /\ hist' = [hist EXCEPT !.blank = @ + (IF Trim(word) = <<>> THEN 1 ELSE 0)]
    /\ IF IsBlank(word)
       THEN UNCHANGED uiT
       ELSE uiT' = Thread("primary", word)
    /\ UNCHANGED <<initial_search, mainPc, loop, queue, wk, input_text, translation>>
    /\ UNCHANGED parseVars

\* main.rs:63-71 on the UI thread
UiPrimary ==
    /\ uiT.pc = "primary"
    /\ \E resp \in PrimaryResponses :
          /\ uiT' = FetchPrimary(uiT, resp)
          /\ hist' = [hist EXCEPT !.uiDone = @ + (IF uiT'.pc = "ret" THEN 1 ELSE 0)]
    /\ UNCHANGED <<initial_search, mainPc, loop, queue, wk, input_text,
                   translation, nSearch>>
    /\ UNCHANGED parseVars

\* main.rs:73-83 on the UI thread
UiFallback ==
    /\ uiT.pc = "fallback"
    /\ \E resp \in FallbackResponses :
          uiT' = FetchFallback(uiT, resp)
    /\ hist' = [hist EXCEPT !.uiDone = @ + 1]
    /\ UNCHANGED <<initial_search, mainPc, loop, queue, wk, input_text,
                   translation, nSearch>>
    /\ UNCHANGED parseVars

\* main.rs:27-34
UiSet ==
    /\ uiT.pc = "ret"
    /\ IF WindowAlive
       THEN /\ translation' = DisplayText(uiT.result)
            /\ hist' = NoteSet(hist, "uiSet")
       ELSE UNCHANGED <<translation, hist>>
    /\ uiT' = Idle
    /\ UNCHANGED <<initial_search, mainPc, loop, queue, wk, input_text, nSearch>>
    /\ UNCHANGED parseVars

\* main.rs:37-39: quit_event_loop() asks the loop to stop
Quit ==
    /\ UiReady
    /\ \A n \in 1..Len(queue) : queue[n].kind # "quit"
    /\ queue' = Append(queue, QuitItem)
    /\ UNCHANGED <<initial_search, mainPc, loop, uiT, wk, input_text,
                   translation, nSearch, hist>>
    /\ UNCHANGED parseVars

\* the event loop takes the next queued item: the closure of
\* main.rs:46-51, or the request to stop
Dispatch ==
    /\ UiReady
    /\ queue # <<>>
    /\ queue' = Tail(queue)
    /\ IF Head(queue).kind = "quit"
       THEN /\ loop' = "quit"
            /\ UNCHANGED <<translation, hist>>
       ELSE /\ UNCHANGED loop
            /\ IF WindowAlive
               THEN /\ translation' = Head(queue).text
                    /\ hist' = NoteSet(hist, "wkSet")
               ELSE UNCHANGED <<translation, hist>>
    /\ UNCHANGED <<initial_search, mainPc, uiT, wk, input_text, nSearch>>
    /\ UNCHANGED parseVars

(***************************************************************************)
(* The startup worker thread, main.rs:45-52                                *)
(***************************************************************************)
WkPrimary ==
    /\ mainPc # "returned"
    /\ wk.pc = "primary"
    /\ \E resp \in PrimaryResponses :
          /\ wk' = FetchPrimary(wk, resp)
          /\ hist' = [hist EXCEPT !.wkDone = @ + (IF wk'.pc = "ret" THEN 1 ELSE 0)]
    /\ UNCHANGED <<initial_search, mainPc, loop, queue, uiT, input_text,
                   translation, nSearch>>
    /\ UNCHANGED parseVars

WkFallback ==
    /\ mainPc # "returned"
    /\ wk.pc = "fallback"
    /\ \E resp \in FallbackResponses :
          wk' = FetchFallback(wk, resp)
    /\ hist' = [hist EXCEPT !.wkDone = @ + 1]
    /\ UNCHANGED <<initial_search, mainPc, loop, queue, uiT, input_text,
                   translation, nSearch>>
    /\ UNCHANGED parseVars

\* upgrade_in_event_loop: the result moves into a closure queued for the UI
\* thread and the worker ends; once the loop has stopped the closure is
\* never run
WkPost ==
    /\ mainPc # "returned"
    /\ wk.pc = "ret"
    /\ IF loop # "quit"
       THEN /\ queue' = Append(queue, SetItem(DisplayText(wk.result)))
            /\ wk' = [Thread("done", <<>>) EXCEPT !.handoff = "queued"]
       ELSE /\ UNCHANGED queue
            /\ wk' = [Thread("done", <<>>) EXCEPT !.handoff = "dropped"]
    /\ UNCHANGED <<initial_search, mainPc, loop, uiT, input_text,
                   translation, nSearch, hist>>
    /\ UNCHANGED parseVars

Next ==
    \/ MainSpawn
    \/ MainRun
    \/ MainReturn
    \/ \E word \in Words : Search(word)
    \/ UiPrimary
    \/ UiFallback
    \/ UiSet
    \/ Quit
    \/ Dispatch
    \/ WkPrimary
    \/ WkFallback
    \/ WkPost

Spec == Init /\ [][Next]_vars

(***************************************************************************)
(* The extractors on their own: the application is left as constructed and *)
(* one extractor is applied to one input.                                  *)
(***************************************************************************)
AppAtRest ==
    /\ initial_search = InitialSearch(<<Prog>>)
    /\ mainPc = "spawn"
    /\ loop = "idle"
    /\ queue = <<>>
    /\ uiT = Idle
    /\ wk = NotSpawned
    /\ input_text = <<>>
    /\ translation = <<>>
    /\ nSearch = 0
    /\ hist = [uiDone |-> 0, uiSet |-> 0, wkDone |-> 0, wkSet |-> 0,
               blank |-> 0, ordered |-> TRUE]

InitFallbackParse ==
    /\ AppAtRest
    /\ doc = <<>>
    /\ html \in SeqsUpTo(FallbackTokens, MaxHtmlLen)
    /\ parsePc = "input"
    /\ parseOut = None

ParseFallback ==
    /\ parsePc = "input"
    /\ parsePc' = "parsed"
    /\ parseOut' = parse_bing_response_fallback(html)
    /\ UNCHANGED <<doc, html>>
    /\ UNCHANGED appVars

SpecFallbackParse == InitFallbackParse /\ [][ParseFallback]_vars

InitBingParse ==
    /\ AppAtRest
    /\ doc \in SeqsUpTo(Segments, MaxSegs)
    /\ html = Render(doc)
    /\ parsePc = "input"
    /\ parseOut = None

ParseBing ==
    /\ parsePc = "input"
    /\ parsePc' = "parsed"
    /\ parseOut' = parse_bing_response(html)
    /\ UNCHANGED <<doc, html>>
    /\ UNCHANGED appVars

SpecBingParse == InitBingParse /\ [][ParseBing]_vars

(***************************************************************************)
(* C6 (Strategy B).  When the start marker occurs and an end marker occurs *)
(* at or after the end of the first start marker, the result is the text   *)
(* between the end of that start marker and the first such end marker;     *)
(* otherwise the result is None ("no result").                             *)
(***************************************************************************)
StartOffsets(h) == {i \in 0..Len(h) : At(h, start_pattern, i)}

EndOffsetsAfter(h, p) == {k \in p..Len(h) : At(h, end_pattern, k)}

C6_StrategyB ==
    parsePc = "parsed" =>
        IF StartOffsets(html) = {} THEN parseOut = None
        ELSE LET p == Min(StartOffsets(html)) + Len(start_pattern)
             IN  IF EndOffsetsAfter(html, p) = {} THEN parseOut = None
                 ELSE /\ parseOut.some
                      /\ parseOut.v = SubSeq(html, p + 1, Min(EndOffsetsAfter(html, p)))

\* text in front of the start marker, one character between the markers
C6_Witness ==
    /\ parsePc = "parsed"
    /\ html = <<"x">> \o start_pattern \o <<"x">> \o end_pattern
    /\ parseOut = Some(<<"x">>)

(***************************************************************************)
(* C7 (Strategy A).                                                        *)
(***************************************************************************)
\* the pattern occurs somewhere in s, stated on offsets
Occurs(s, re) ==
    \E i \in 0..Len(s), j \in 0..Len(s), k \in 0..Len(s) :
        /\ At(s, re.lit1, i)
        /\ i + Len(re.lit1) <= j
        /\ At(s, re.lit2, j)
        /\ j + Len(re.lit2) <= k
        /\ At(s, re.lit3, k)
        /\ \A n \in (i + Len(re.lit1) + 1)..j : s[n] # "\n"
        /\ \A n \in (j + Len(re.lit2) + 1)..k : s[n] # "\n"

\* a document of exactly one phonetic span, pairs and plain text
WellFormed(d) ==
    /\ \A n \in 1..Len(d) : d[n].kind \in {"phon", "pair", "text"}
    /\ Cardinality({n \in 1..Len(d) : d[n].kind = "phon"}) = 1

ThePhonetic(d) == d[CHOOSE n \in 1..Len(d) : d[n].kind = "phon"].b

RECURSIVE PairLines(_)
PairLines(d) ==
    IF d = <<>> THEN <<>>
    ELSE (IF Head(d).kind = "pair"
          THEN <<"\n", "·", " ">> \o Head(d).a \o <<" ">> \o Head(d).b
          ELSE <<>>) \o PairLines(Tail(d))

NoSpanIsNone ==
    /\ parseOut # Some(<<>>)
    /\ (~Occurs(html, phonetic_pattern) /\ ~Occurs(html, explain_pattern))
           => parseOut = None

\* C7 as stated: the phonetic line carries the bracketed text as it stands
\* in the span
C7_AsStated ==
    parsePc = "parsed" =>
        /\ NoSpanIsNone
        /\ WellFormed(doc) =>
              parseOut = Some(<<"·", " ", "[">> \o ThePhonetic(doc) \o <<"]">>
                              \o PairLines(doc))

\* C7 amended: no span at all gives None, never Some("");  a well-formed
\* document gives the line "· [p]", p being the bracketed text with leading
\* and trailing whitespace removed, then one line "· pos trs" per pair in
\* document order, lines separated by "\n" and no "\n" at the end.
C7_StrategyA ==
    parsePc = "parsed" =>
        /\ NoSpanIsNone
        /\ WellFormed(doc) =>
              parseOut = Some(<<"·", " ", "[">> \o Trim(ThePhonetic(doc)) \o <<"]">>
                              \o PairLines(doc))

\* two pairs around the phonetic span, whose text is padded with spaces
C7_Witness ==
    /\ parsePc = "parsed"
    /\ WellFormed(doc)
    /\ Len(doc) = 3
    /\ doc[1].kind = "pair" /\ doc[2].kind = "phon" /\ doc[3].kind = "pair"
    /\ doc[1] # doc[3]
    /\ ThePhonetic(doc) # Trim(ThePhonetic(doc))
    /\ parseOut.some

(***************************************************************************)
(* Vocabulary of the claims about the application                          *)
(***************************************************************************)
Threads == {uiT, wk}

\* inside fetch_translation
InFetch(t) == t.pc \in {"primary", "fallback"}

\* fetch_translation has returned and its result is still held
Returned(t) == t.pc = "ret"

\* was handed to fetch_translation
Fetching(t) == InFetch(t) \/ Returned(t)

\* the primary attempt failed: transport error, non-success status,
\* extraction miss or empty extraction
PrimaryFailed(resp) ==
    \/ resp.kind = "transport"
    \/ /\ resp.kind = "http"
       /\ \/ resp.status < 200
          \/ resp.status > 299
          \/ LET r == parse_bing_response(resp.body) IN ~r.some \/ r.v = <<>>

\* the text Strategy B is to extract from a body holding the start marker
\* and an end marker behind it
HasMeta(body) ==
    /\ StartOffsets(body) # {}
    /\ EndOffsetsAfter(body, Min(StartOffsets(body)) + Len(start_pattern)) # {}

MetaText(body) ==
    LET p == Min(StartOffsets(body)) + Len(start_pattern)
    IN  SubSeq(body, p + 1, Min(EndOffsetsAfter(body, p)))

FallbackFailed(resp) ==
    \/ resp.kind = "transport"
    \/ /\ resp.kind = "http"
       /\ \/ resp.status < 200
          \/ resp.status > 299
          \/ ~HasMeta(resp.body)
          \/ MetaText(resp.body) = <<>>

BothFailed(t) ==
    /\ t.resp2.kind # "none"
    /\ FallbackFailed(t.resp2)
    /\ PrimaryFailed(t.resp1)

\* a step in which set_translation is called for a user search / for the
\* startup search
UiSets == hist'.uiSet # hist.uiSet
WkSets == hist'.wkSet # hist.wkSet

\* the step of the worker that hands its result to the event loop
WkQueues == wk.pc = "ret" /\ wk'.pc = "done" /\ wk'.handoff = "queued"

(***************************************************************************)
(* C1.  A query that is empty or only whitespace starts no fetch: no       *)
(* thread is ever inside fetch_translation with such a word, an empty      *)
(* initial_search (no argument, or a blank one) spawns no worker, and a    *)
(* search action with a blank word leaves both threads, the queue and the  *)
(* translation field as they were.                                         *)
(***************************************************************************)
C1_NoFetchForBlank ==
    /\ [](\A t \in Threads : Fetching(t) => Trim(t.word) # <<>>)
    /\ [](initial_search = <<>> => wk.pc = "none")
    /\ [][hist'.blank # hist.blank => UNCHANGED <<uiT, wk, queue, translation>>]_vars

\* no startup search was made, and a blank word was searched
C1_Witness ==
    /\ initial_search = <<>>
    /\ loop = "running"
    /\ hist.blank = 1
    /\ nSearch = 1
    /\ uiT.pc = "idle"

(***************************************************************************)
(* C2.  fetch_translation never returns an error: whenever it has returned *)
(* its result is Ok, and no "Error: ..." text reaches the translation      *)
(* field or the hand-off queue.                                            *)
(***************************************************************************)
C2_NeverFailsOutward ==
    /\ \A t \in Threads : Returned(t) => t.result.ok
    /\ translation = <<>> \/ translation[1] # "Error: "
    /\ \A n \in 1..Len(queue) : queue[n].text = <<>> \/ queue[n].text[1] # "Error: "

\* both attempts failed, in four different ways
C2_Witness ==
    /\ uiT.pc = "ret"
    /\ uiT.resp1.kind = "transport"
    /\ uiT.resp2 = Http(500, <<>>)
    /\ wk.pc = "ret"
    /\ wk.resp1 = Http(200, <<"x">>)
    /\ wk.resp2 = Http(200, start_pattern \o end_pattern)

(***************************************************************************)
(* C3.  When both attempts of a fetch failed, fetch_translation returned   *)
(* Ok("No Data"), and the text handed to set_translation for that fetch    *)
(* (directly on the UI thread, through the queued closure on the worker)   *)
(* is exactly "No Data".                                                   *)
(***************************************************************************)
C3_BothFailGiveNoData ==
    /\ [](\A t \in Threads : (Returned(t) /\ BothFailed(t)) => t.result = Ok(NoData))
    /\ [][(UiSets /\ BothFailed(uiT)) => translation' = NoData]_vars
    /\ [][(WkQueues /\ BothFailed(wk)) => queue'[Len(queue')] = SetItem(NoData)]_vars

\* a user search failed twice, the fallback by an empty extraction
C3_Witness ==
    /\ uiT.pc = "ret"
    /\ uiT.resp1 = Http(500, <<>>)
    /\ uiT.resp2 = Http(200, start_pattern \o end_pattern)
    /\ uiT.result = Ok(NoData)

(***************************************************************************)
(* C4.                                                                     *)
(***************************************************************************)
\* primary answered with success but Strategy A found nothing; fallback
\* answered with success and a body holding both markers
MetaAfterMiss(t) ==
    /\ t.resp2.kind = "http" /\ is_success(t.resp2.status)
    /\ HasMeta(t.resp2.body)
    /\ t.resp1.kind = "http" /\ is_success(t.resp1.status)
    /\ ~parse_bing_response(t.resp1.body).some

\* C4 as stated: the result is the text between the markers
C4_AsStated ==
    \A t \in Threads :
        (Returned(t) /\ MetaAfterMiss(t)) => t.result = Ok(MetaText(t.resp2.body))

\* C4 amended: when the text between the markers is not empty, the result
\* of the fetch, and the text handed to set_translation for it, is that text.
C4_FallbackTextShown ==
    /\ [](\A t \in Threads :
            (Returned(t) /\ MetaAfterMiss(t) /\ MetaText(t.resp2.body) # <<>>)
                => t.result = Ok(MetaText(t.resp2.body)))
    /\ [][(UiSets /\ MetaAfterMiss(uiT) /\ MetaText(uiT.resp2.body) # <<>>)
              => translation' = MetaText(uiT.resp2.body)]_vars
    /\ [][(WkQueues /\ MetaAfterMiss(wk) /\ MetaText(wk.resp2.body) # <<>>)
              => queue'[Len(queue')] = SetItem(MetaText(wk.resp2.body))]_vars

\* a user search went through the fallback and its text is on display
C4_Witness ==
    /\ uiT.pc = "idle"
    /\ hist.uiSet = 1
    /\ hist.wkSet = 0
    /\ translation = <<"x">>

(***************************************************************************)
(* C5.                                                                     *)
(***************************************************************************)
SetPending == \E n \in 1..Len(queue) : queue[n].kind = "set"

\* C5 as stated: when the program has ended, every completed fetch has had
\* its one set_translation call
C5_AsStated ==
    mainPc = "returned" => (hist.uiSet = hist.uiDone /\ hist.wkSet = hist.wkDone)

\* C5 amended: set_translation is called at most once per completed fetch
\* and with that fetch's result; exactly once, before the callback ends,
\* for a user-triggered fetch; for the startup search exactly once when
\* its closure was queued and the event loop dispatched it, and never when
\* the loop stopped first.
C5_SetAtMostOnce ==
    /\ [](/\ (uiT.pc # "ret" => hist.uiSet = hist.uiDone)
          /\ (uiT.pc = "ret" => hist.uiDone = hist.uiSet + 1)
          /\ hist.wkSet <= hist.wkDone /\ hist.wkDone <= 1
          /\ hist.wkDone = 1 <=> wk.pc \in {"ret", "done"}
          /\ hist.wkSet = 1 <=>
                (wk.pc = "done" /\ wk.handoff = "queued" /\ ~SetPending))
    /\ [][UiSets => translation' = uiT.result.v]_vars
    /\ [][WkQueues => queue'[Len(queue')] = SetItem(wk.result.v)]_vars
    /\ [][WkSets => (Head(queue).kind = "set" /\ translation' = Head(queue).text)]_vars

\* the program ended after the user fetches and the startup fetch, each set
C5_Witness ==
    /\ mainPc = "returned"
    /\ hist.uiDone = MaxSearches
    /\ hist.uiSet = MaxSearches
    /\ hist.wkSet = 1

(***************************************************************************)
(* C8 as stated: every word handed to fetch_translation is non-empty and   *)
(* has no leading or trailing whitespace.                                  *)
(***************************************************************************)
C8_AsStated ==
    \A t \in Threads : Fetching(t) => (t.word # <<>> /\ t.word = Trim(t.word))

(***************************************************************************)
(* C9.  Within one fetch the primary endpoint is requested first and once; *)
(* the fallback endpoint is requested, once, exactly when the primary      *)
(* attempt failed; when the primary attempt succeeded the fetch returns    *)
(* the primary's extraction and the fallback is not requested.             *)
(***************************************************************************)
C9_OrderedChain ==
    \A t \in Threads :
        /\ t.pc \in {"idle", "none", "done", "primary"} => t.reqs = <<>>
        /\ t.pc = "fallback" => (t.reqs = <<"primary">> /\ PrimaryFailed(t.resp1))
        /\ t.pc = "ret" =>
              IF PrimaryFailed(t.resp1)
              THEN t.reqs = <<"primary", "fallback">>
              ELSE /\ t.reqs = <<"primary">>
                   /\ t.resp1.kind = "http"
                   /\ t.result = Ok(parse_bing_response(t.resp1.body).v)

\* one fetch ended at the primary, the other went on to the fallback
C9_Witness ==
    /\ uiT.pc = "ret"
    /\ uiT.reqs = <<"primary", "fallback">>
    /\ wk.pc = "ret"
    /\ wk.reqs = <<"primary">>

(***************************************************************************)
(* C10 as stated: no two executions of fetch_translation overlap, and      *)
(* results reach the translation field in the order of the requests.       *)
(***************************************************************************)
C10_AsStated ==
    /\ ~(InFetch(uiT) /\ InFetch(wk))
    /\ hist.ordered

====
